---------------------------- MODULE Spec2Model ----------------------------
(***************************************************************************)
(* Model of scripts/simple_composer.py (merge of two scenes into a new     *)
(* stage) and scripts/validate_composed.py (diff of the composed stage     *)
(* against both sources).                                                  *)
(*                                                                         *)
(* A stage is modelled by its root layer: one prim spec per "site".  A     *)
(* site is a prim path together with the scope the opinion was authored    *)
(* in: the default (local) scope, or one variant of a variant set of an    *)
(* ancestor prim.  What the scripts read (type names, metadata, children,  *)
(* relationships, variant sets) is the composition of the sites that are   *)
(* active under the current variant selections, local opinions strongest.  *)
(***************************************************************************)
EXTENDS Integers, Sequences, FiniteSets, TLC

(***************************************************************************)
(* Bounds of the model.                                                    *)
(***************************************************************************)
NumValues == 2          \* metadata / attribute values are 1..NumValues

(***************************************************************************)
(* The universe of names.                                                  *)
(***************************************************************************)
World == <<"World">>
Box   == <<"World", "Box">>
Part  == <<"World", "Box", "Part">>
Paths == {World, Box, Part}
\* namespace order in which GetChildren() lists prims
PathOrder == <<World, Box, Part>>

Types      == {"", "Xform", "Cube"}
MetaKeys   == {"comment", "kind"}        \* authored metadata keys
CDKeys     == {"comment", "kind", "note"}   \* keys of the customData dictionary
AttrNames  == {"size"}
AttrOrder  == <<"size">>
RelNames   == {"boundMaterial", "debugLink"}
RelOrder   == <<"boundMaterial", "debugLink">>
Targets    == {"/World/Mat1", "/World/Mat2"}
VSetNames  == {"materialVariant"}
VSetOrder  == <<"materialVariant">>
Variants   == {"Metal", "Plastic"}
VariantOrder == <<"Metal", "Plastic">>

Values == 1..NumValues
None   == CHOOSE n \in 0..NumValues : n \notin Values   \* no value: Python's None
NoAttr == 0 - 1               \* no such attribute (0 is an empty/falsy value)
NoRel  == {"~"}               \* no such relationship (distinct from a target set)
NoSet  == {"~"}               \* variant set not declared at this site

(***************************************************************************)
(* Scopes, sites and prim specs.                                           *)
(***************************************************************************)
Local == [prim |-> <<>>, set |-> "", variant |-> ""]
VarScope(P, vs, v) == [prim |-> P, set |-> vs, variant |-> v]

IsPrefix(P, X) == Len(P) < Len(X) /\ SubSeq(X, 1, Len(P)) = P
IsPrefixEq(P, X) == P = X \/ IsPrefix(P, X)
Parent(X) == SubSeq(X, 1, Len(X) - 1)

VarScopes == {VarScope(P, vs, v) : P \in {X \in Paths : \E Y \in Paths : IsPrefix(X, Y)},
                                   vs \in VSetNames, v \in Variants}
Sites == {<<X, Local>> : X \in Paths} \cup
         {s \in Paths \X VarScopes : IsPrefix(s[2].prim, s[1])}

EmptySpec == [specifier  |-> "none",
              typeName   |-> "",
              meta       |-> [k \in MetaKeys |-> None],
              customData |-> [k \in CDKeys |-> None],
              attrs      |-> [a \in AttrNames |-> NoAttr],
              rels       |-> [r \in RelNames |-> NoRel],
              vsets      |-> [vs \in VSetNames |-> NoSet],
              vsel       |-> [vs \in VSetNames |-> ""]]

EmptyLayer == [s \in Sites |-> EmptySpec]

\* F applied to the value of x, evaluated once
Bind(x, F(_)) == CHOOSE r \in {F(y) : y \in {x}} : TRUE

\* the elements of a sequence that satisfy a test, in order
RECURSIVE SelectFrom(_, _)
SelectFrom(seq, S) ==
    IF seq = <<>> THEN <<>>
    ELSE (IF Head(seq) \in S THEN <<Head(seq)>> ELSE <<>>) \o SelectFrom(Tail(seq), S)

(***************************************************************************)
(* Composition: what the Usd API reads off a stage.                        *)
(***************************************************************************)
\* opinion of one field at the sites of X given in strength order
RECURSIVE FirstVsel(_, _, _, _)
FirstVsel(layer, X, scopes, vs) ==
    IF scopes = <<>> THEN ""
    ELSE IF layer[<<X, Head(scopes)>>].vsel[vs] # ""
         THEN layer[<<X, Head(scopes)>>].vsel[vs]
         ELSE FirstVsel(layer, X, Tail(scopes), vs)

\* scopes that contribute opinions to X, strongest first: the local scope,
\* then the selected variants of the ancestors, nearest ancestor first
RECURSIVE ActiveScopes(_, _)
ActiveScopes(layer, X) ==
    IF Len(X) <= 1 THEN <<Local>>
    ELSE LET P == Parent(X)
             Extend(up) ==
                LET declared(vs) == \E i \in 1..Len(up) : layer[<<P, up[i]>>].vsets[vs] # NoSet
                    sel(vs) == FirstVsel(layer, P, up, vs)
                    own == SelectFrom(VSetOrder,
                                      {vs \in VSetNames : declared(vs) /\ sel(vs) # ""})
                IN  <<Local>> \o [i \in 1..Len(own) |-> VarScope(P, own[i], sel(own[i]))]
                              \o Tail(up)
         IN  Bind(ActiveScopes(layer, P), Extend)

Opinions(layer, X) ==
    LET At(sc) == [i \in 1..Len(sc) |-> layer[<<X, sc[i]>>]]
    IN  Bind(ActiveScopes(layer, X), At)

\* UsdPrim.IsValid(): some site holds a spec for the prim
IsValid(layer, X) ==
    /\ X \in Paths
    /\ \E ops \in {Opinions(layer, X)} : \E i \in 1..Len(ops) : ops[i].specifier # "none"

\* UsdPrim.IsDefined(): the prim and all its ancestors have a defining specifier
RECURSIVE IsDefined(_, _)
IsDefined(layer, X) ==
    /\ X \in Paths
    /\ \E ops \in {Opinions(layer, X)} : \E i \in 1..Len(ops) : ops[i].specifier = "def"
    /\ (Len(X) > 1 => IsDefined(layer, Parent(X)))

RECURSIVE FirstType(_)
FirstType(ops) ==
    IF ops = <<>> THEN ""
    ELSE IF Head(ops).typeName # "" THEN Head(ops).typeName ELSE FirstType(Tail(ops))

GetTypeName(layer, X) == FirstType(Opinions(layer, X))

RECURSIVE FirstMeta(_, _)
FirstMeta(ops, k) ==
    IF ops = <<>> THEN None
    ELSE IF Head(ops).meta[k] # None THEN Head(ops).meta[k] ELSE FirstMeta(Tail(ops), k)

RECURSIVE FirstCD(_, _)
FirstCD(ops, k) ==
    IF ops = <<>> THEN None
    ELSE IF Head(ops).customData[k] # None THEN Head(ops).customData[k]
         ELSE FirstCD(Tail(ops), k)

\* dictionaries compose key by key
GetCustomData(layer, X) ==
    LET Dict(ops) == [k \in CDKeys |-> FirstCD(ops, k)] IN Bind(Opinions(layer, X), Dict)

RECURSIVE FirstAttr(_, _)
FirstAttr(ops, a) ==
    IF ops = <<>> THEN NoAttr
    ELSE IF Head(ops).attrs[a] # NoAttr THEN Head(ops).attrs[a] ELSE FirstAttr(Tail(ops), a)

GetAttr(layer, X, a) == FirstAttr(Opinions(layer, X), a)

RECURSIVE FirstRel(_, _)
FirstRel(ops, r) ==
    IF ops = <<>> THEN NoRel
    ELSE IF Head(ops).rels[r] # NoRel THEN Head(ops).rels[r] ELSE FirstRel(Tail(ops), r)

GetTargets(layer, X, r) == FirstRel(Opinions(layer, X), r)
\* prim.GetRelationships(): names in order
GetRelationships(layer, X) ==
    LET Rels(ops) == SelectFrom(RelOrder, {r \in RelNames : FirstRel(ops, r) # NoRel})
    IN  Bind(Opinions(layer, X), Rels)
\* prim.GetAttributes(): names
GetAttributes(layer, X) == {a \in AttrNames : GetAttr(layer, X, a) # NoAttr}

\* prim.GetVariantSets().GetNames()
GetNames(layer, X) ==
    LET Names(ops) == {vs \in VSetNames : \E i \in 1..Len(ops) : ops[i].vsets[vs] # NoSet}
    IN  Bind(Opinions(layer, X), Names)
\* variantSet.GetVariantNames(): union over the contributing sites
GetVariantNames(layer, X, vs) ==
    LET Names(ops) == {v \in Variants : \E i \in 1..Len(ops) :
                                           ops[i].vsets[vs] # NoSet /\ v \in ops[i].vsets[vs]}
    IN  Bind(Opinions(layer, X), Names)
\* variantSet.GetVariantSelection(): "" when there is none
GetVariantSelection(layer, X, vs) ==
    IF vs \in GetNames(layer, X) THEN FirstVsel(layer, X, ActiveScopes(layer, X), vs) ELSE ""

\* prim.GetChildren(): the defined children, in namespace order
GetChildren(layer, X) ==
    SelectFrom(PathOrder, {Y \in Paths : Len(Y) = Len(X) + 1 /\ IsPrefix(X, Y)
                                          /\ IsDefined(layer, Y)})
\* stage.GetPseudoRoot().GetChildren()
RootChildren(layer) ==
    SelectFrom(PathOrder, {Y \in Paths : Len(Y) = 1 /\ IsDefined(layer, Y)})

\* keys of prim.GetAllMetadata(): specifier always, typeName when typed, the
\* schema's documentation fallback for a typed prim, customData when the
\* dictionary is not empty, and every authored key
GetAllMetadataKeys(layer, X) ==
    LET Keys(ops) ==
            {"specifier"}
            \cup (IF FirstType(ops) # "" THEN {"typeName", "documentation"} ELSE {})
            \cup (IF \E k \in CDKeys : FirstCD(ops, k) # None THEN {"customData"} ELSE {})
            \cup {k \in MetaKeys : FirstMeta(ops, k) # None}
    IN  Bind(Opinions(layer, X), Keys)

\* prim.GetMetadata(key) of an authored key
GetMetadata(layer, X, k) == FirstMeta(Opinions(layer, X), k)
\* the resolved specifier
GetSpecifier(layer, X) == IF IsDefined(layer, X) THEN "def" ELSE "over"

(***************************************************************************)
(* Authoring: what the Usd API writes, at the stage's current edit target. *)
(***************************************************************************)
\* the site an edit of prim X lands on under edit target t: a variant edit
\* target maps the paths below its prim into the variant
SiteOf(t, X) == IF t # Local /\ IsPrefix(t.prim, X) THEN <<X, t>> ELSE <<X, Local>>

\* creating a spec creates the missing specs above it, as "over"
SpecAncestors(t, X) ==
    LET s == SiteOf(t, X)
    IN  IF s[2] = Local
        THEN {<<Y, Local>> : Y \in {Z \in Paths : IsPrefixEq(Z, X)}}
        ELSE {<<Y, t>> : Y \in {Z \in Paths : IsPrefixEq(Z, X) /\ IsPrefix(t.prim, Z)}}
             \cup {<<Y, Local>> : Y \in {Z \in Paths : IsPrefixEq(Z, t.prim)}}

CreatePrimSpecForEditing(layer, t, X) ==
    LET Create(L) == [s \in Sites |-> IF s \in SpecAncestors(t, X) /\ L[s].specifier = "none"
                                      THEN [L[s] EXCEPT !.specifier = "over"]
                                      ELSE L[s]]
    IN  Bind(layer, Create)

\* a DefinePrim that returns an already defined prim whatever its type
RECURSIVE DefinePrimKeepType(_, _, _, _)
DefinePrimKeepType(layer, t, X, typeName) ==
    LET Define(up) ==
            IF IsDefined(up, X)
            THEN up
            ELSE [CreatePrimSpecForEditing(up, t, X) EXCEPT ![SiteOf(t, X)] =
                    [@ EXCEPT !.specifier = "def",
                              !.typeName  = IF typeName = "" THEN @ ELSE typeName]]
    IN  Bind(IF Len(X) > 1 THEN DefinePrimKeepType(layer, t, Parent(X), "") ELSE layer, Define)

\* stage.DefinePrim(path, typeName): defines the ancestors, then authors a
\* def with the type name unless the prim is already defined with that type
RECURSIVE DefinePrim(_, _, _, _)
DefinePrim(layer, t, X, typeName) ==
    LET Define(up) ==
            IF IsDefined(up, X) /\ (typeName = "" \/ GetTypeName(up, X) = typeName)
            THEN up
            ELSE [CreatePrimSpecForEditing(up, t, X) EXCEPT ![SiteOf(t, X)] =
                    [@ EXCEPT !.specifier = "def",
                              !.typeName  = IF typeName = "" THEN @ ELSE typeName]]
    IN  Bind(IF Len(X) > 1 THEN DefinePrim(layer, t, Parent(X), "") ELSE layer, Define)

\* prim.SetMetadata(key, value) for the keys a prim spec stores as fields
SetMetadata(layer, t, X, key, val) ==
    LET s == SiteOf(t, X)
        Set(made) == CASE key = "specifier" -> [made EXCEPT ![s].specifier = val]
                       [] key = "typeName"  -> [made EXCEPT ![s].typeName = val]
                       [] key \in MetaKeys  -> [made EXCEPT ![s].meta[key] = val]
                       [] OTHER             -> made
    IN  Bind(CreatePrimSpecForEditing(layer, t, X), Set)

\* prim.SetCustomDataByKey(key, value)
SetCustomDataByKey(layer, t, X, key, val) ==
    LET s == SiteOf(t, X)
        Set(made) == IF key \in CDKeys THEN [made EXCEPT ![s].customData[key] = val] ELSE made
    IN  Bind(CreatePrimSpecForEditing(layer, t, X), Set)

\* prim.CreateAttribute(name, ...).Set(value)
SetAttribute(layer, t, X, name, val) ==
    [CreatePrimSpecForEditing(layer, t, X) EXCEPT ![SiteOf(t, X)].attrs[name] = val]

\* prim.CreateRelationship(name).SetTargets(targets)
SetTargets(layer, t, X, name, targets) ==
    [CreatePrimSpecForEditing(layer, t, X) EXCEPT ![SiteOf(t, X)].rels[name] = targets]

\* variantSets.AddVariantSet(name)
AddVariantSet(layer, t, X, vs) ==
    [CreatePrimSpecForEditing(layer, t, X) EXCEPT
        ![SiteOf(t, X)].vsets[vs] = IF @ = NoSet THEN {} ELSE @]

\* variantSet.AddVariant(v)
AddVariant(layer, t, X, vs, v) ==
    [AddVariantSet(layer, t, X, vs) EXCEPT ![SiteOf(t, X)].vsets[vs] = @ \cup {v}]

\* a SetVariantSelection that also declares the variant where it writes
SetVariantSelectionDeclaring(layer, t, X, vs, v) ==
    [AddVariant(layer, t, X, vs, v) EXCEPT ![SiteOf(t, X)].vsel[vs] = v]

\* variantSet.SetVariantSelection(v)
SetVariantSelection(layer, t, X, vs, v) ==
    [CreatePrimSpecForEditing(layer, t, X) EXCEPT ![SiteOf(t, X)].vsel[vs] = v]

\* variantSet.GetVariantEditContext(): the edit target of the currently
\* selected variant; with no selection the target is invalid and entering
\* the context leaves the stage's edit target as it is
GetVariantEditContext(layer, t, X, vs) ==
    LET Target(sel) == IF sel = "" THEN t ELSE VarScope(X, vs, sel)
    IN  Bind(GetVariantSelection(layer, X, vs), Target)

(***************************************************************************)
(* simple_composer.py: the per-category copies.                            *)
(***************************************************************************)
custom_data_keys == {"comment", "documentation", "focalLength"}
\* GetAllMetadata() lists its keys sorted
KeyOrder == <<"comment", "customData", "documentation", "kind", "specifier", "typeName">>
CDOrder  == <<"comment", "kind", "note">>

\* "key in src_attr_names": the list holds attribute objects, not names, so
\* a metadata key (a string) is never equal to one of its elements
KeyInAttributes(layer, X, key) == FALSE

\* the customData branch: inner keys not among the destination's metadata
\* keys are written into the destination's customData
RECURSIVE CopyCustomData(_, _, _, _, _, _)
CopyCustomData(dict, dst, t, X, dst_keys, ks) ==
    IF ks = <<>> THEN dst
    ELSE LET k    == Head(ks)
             next == IF dict[k] # None /\ k \notin dst_keys
                     THEN SetCustomDataByKey(dst, t, X, k, dict[k])
                     ELSE dst
         IN  CopyCustomData(dict, next, t, X, dst_keys, Tail(ks))

\* one iteration of the loop of copy_metadata
CopyKey(src, dst, t, X, dst_keys, key) ==
    IF KeyInAttributes(src, X, key) \/ key \in custom_data_keys THEN dst
    ELSE IF key = "customData"
         THEN LET Inner(dict) == CopyCustomData(dict, dst, t, X, dst_keys, CDOrder)
              IN  Bind(GetCustomData(src, X), Inner)
    ELSE IF key \notin dst_keys
         THEN SetCustomDataByKey(dst, t, X, key, GetMetadata(src, X, key))
    ELSE SetMetadata(dst, t, X, key,
                     CASE key = "specifier" -> GetSpecifier(src, X)
                       [] key = "typeName"  -> GetTypeName(src, X)
                       [] OTHER             -> GetMetadata(src, X, key))

RECURSIVE CopyKeys(_, _, _, _, _, _)
CopyKeys(src, dst, t, X, dst_keys, ks) ==
    IF ks = <<>> THEN dst
    ELSE LET next == CopyKey(src, dst, t, X, dst_keys, Head(ks))
         IN  CopyKeys(src, next, t, X, dst_keys, Tail(ks))

\* dst_keys is read once, before the loop
copy_metadata(src, dst, t, X) ==
    LET Loop(d) ==
            LET Over(dst_keys) ==
                    LET Each(ks) == CopyKeys(src, d, t, X, dst_keys, ks)
                    IN  Bind(SelectFrom(KeyOrder, GetAllMetadataKeys(src, X)), Each)
            IN  Bind(GetAllMetadataKeys(d, X), Over)
    IN  Bind(dst, Loop)

\* attributes with an empty/falsy value are skipped
RECURSIVE CopyAttrs(_, _, _, _, _)
CopyAttrs(src, dst, t, X, as) ==
    IF as = <<>> THEN dst
    ELSE LET Set(value) == IF value = 0 THEN dst
                           ELSE SetAttribute(dst, t, X, Head(as), value)
         IN  CopyAttrs(src, Bind(GetAttr(src, X, Head(as)), Set), t, X, Tail(as))

copy_attributes(src, dst, t, X) ==
    LET Each(as) == CopyAttrs(src, dst, t, X, as)
    IN  Bind(SelectFrom(AttrOrder, GetAttributes(src, X)), Each)

RECURSIVE CopyRels(_, _, _, _, _)
CopyRels(src, dst, t, X, rs) ==
    IF rs = <<>> THEN dst
    ELSE LET next == SetTargets(dst, t, X, Head(rs), GetTargets(src, X, Head(rs)))
         IN  CopyRels(src, next, t, X, Tail(rs))

copy_relationships(src, dst, t, X) ==
    LET Each(rs) == CopyRels(src, dst, t, X, rs)
    IN  Bind(GetRelationships(src, X), Each)

\* _copy_prim, lines 165-172: define the destination prim, then copy
\* metadata, attributes and relationships
CopyPrimHead(src, dst, t, X) ==
    LET Define(ty) == DefinePrim(dst, t, X, IF ty # "" THEN ty ELSE "Xform")
        d0 == Bind(GetTypeName(src, X), Define)
        d1 == copy_metadata(src, d0, t, X)
        d2 == Bind(d1, LAMBDA d : copy_attributes(src, d, t, X))
    IN  Bind(d2, LAMBDA d : copy_relationships(src, d, t, X))

\* copy_variant_sets, lines 137-150: declare the set and the source's
\* variants on the destination and mirror the source's selection
RECURSIVE AddVariants(_, _, _, _, _, _)
AddVariants(dst, t, X, vs, dst_names, vars) ==
    IF vars = <<>> THEN dst
    ELSE LET next == IF Head(vars) \notin dst_names
                     THEN AddVariant(dst, t, X, vs, Head(vars)) ELSE dst
         IN  AddVariants(next, t, X, vs, dst_names, Tail(vars))

MirrorVariantSet(src, dst, t, X, vs) ==
    LET Ensure(d0) ==
            LET Add(dst_names) ==
                    AddVariants(d0, t, X, vs, dst_names,
                                SelectFrom(VariantOrder, GetVariantNames(src, X, vs)))
            IN  Bind(GetVariantNames(d0, X, vs), Add)
        Select(d1) ==
            LET Mirror(sel) == IF sel # "" THEN SetVariantSelection(d1, t, X, vs, sel) ELSE d1
            IN  Bind(GetVariantSelection(src, X, vs), Mirror)
    IN  Bind(Bind(AddVariantSet(dst, t, X, vs), Ensure), Select)

(***************************************************************************)
(* The scenes given to the scripts.  They are authored the way             *)
(* write_random_scene.py authors its scene: prims defined on a new stage,  *)
(* a variant set on a prim, content authored inside a variant edit         *)
(* context.                                                                *)
(***************************************************************************)
MV == "materialVariant"
Mat1 == "/World/Mat1"

Dec(ty, comment, kind, note, rel, size) ==
    [type |-> ty, comment |-> comment, kind |-> kind, note |-> note,
     rel |-> rel, size |-> size]

Bare == Dec("Xform", None, None, None, NoRel, NoAttr)
\* prims that differ in type only
Typed == {Bare, [Bare EXCEPT !.type = ""], [Bare EXCEPT !.type = "Cube"]}
\* prims with a relationship, with and without a comment
Related == {[Bare EXCEPT !.rel = {Mat1}, !.comment = 1], [Bare EXCEPT !.rel = {Mat1}]}
\* prims with a size attribute (0 is an empty value)
Sized == {[Bare EXCEPT !.size = 0], [Bare EXCEPT !.size = NumValues]}
\* prims with a metadata key / a customData entry
Keyed == {[Bare EXCEPT !.kind = v] : v \in Values}
Noted == {[Bare EXCEPT !.note = v] : v \in Values}
Decorations == Typed \cup Related \cup Sized \cup Keyed \cup Noted

\* the pairs (Box of A, Box of B) the scripts are run on
DecPairs ==
    (Typed \X Typed) \cup (Related \X (Sized \cup {Bare})) \cup ((Keyed \cup Noted) \X (Keyed \cup Noted))
    \cup {<<d, d>> : d \in Decorations}

\* flat: no variant set.  metal: World has the variant set, Metal selected,
\* and Box (with Part) is authored inside Metal only.  plastic: Metal is
\* selected and Box is authored inside Plastic only.  plasticSelected: the
\* same with Plastic selected.  unselected: the set has no selection and Box
\* is authored in the default scope.  nested: as metal, and Box has its own
\* variant set whose selected variant holds Part.
Layouts == {"flat", "metal", "plastic", "plasticSelected", "unselected", "nested"}
LayoutPairs == {lp \in Layouts \X Layouts : lp[1] = lp[2] \/ "flat" \in {lp[1], lp[2]}}
               \cup {<<"metal", "plasticSelected">>, <<"plasticSelected", "metal">>}

Decorate(layer, t, X, dec) ==
    LET Comment(d) == IF dec.comment # None THEN SetMetadata(d, t, X, "comment", dec.comment) ELSE d
        Kind(d)    == IF dec.kind # None THEN SetMetadata(d, t, X, "kind", dec.kind) ELSE d
        Note(d)    == IF dec.note # None THEN SetCustomDataByKey(d, t, X, "note", dec.note) ELSE d
        Rel(d)     == IF dec.rel # NoRel THEN SetTargets(d, t, X, "boundMaterial", dec.rel) ELSE d
        Size(d)    == IF dec.size # NoAttr THEN SetAttribute(d, t, X, "size", dec.size) ELSE d
    IN  Bind(Bind(Bind(Bind(Bind(DefinePrim(layer, t, X, dec.type), Comment), Kind), Note), Rel), Size)

WithVariants(layer, t, X, sel) ==
    LET Select(d0) == IF sel # "" THEN SetVariantSelection(d0, t, X, MV, sel) ELSE d0
    IN  Bind(AddVariant(AddVariant(layer, t, X, MV, "Metal"), t, X, MV, "Plastic"), Select)

Scene(lay, dec) ==
    LET metal   == VarScope(World, MV, "Metal")
        plastic == VarScope(World, MV, "Plastic")
        \* the scope Box is authored in
        bt  == CASE lay \in {"metal", "nested"} -> metal
                 [] lay \in {"plastic", "plasticSelected"} -> plastic
                 [] OTHER -> Local
        Root(w) == IF lay = "flat" THEN w
                   ELSE WithVariants(w, Local, World,
                                     CASE lay = "unselected" -> ""
                                       [] lay = "plasticSelected" -> "Plastic"
                                       [] OTHER -> "Metal")
        AddBox(w) == Decorate(w, bt, Box, dec)
        AddPart(b) ==
            CASE lay = "flat"   -> DefinePrim(b, Local, Part, "Xform")
              [] lay = "metal"  -> DefinePrim(b, metal, Part, "Xform")
              [] lay = "nested" -> DefinePrim(WithVariants(b, bt, Box, "Plastic"),
                                              VarScope(Box, MV, "Plastic"), Part, "Xform")
              [] OTHER          -> b
    IN  Bind(Bind(Bind(DefinePrim(EmptyLayer, Local, World, "Xform"), Root), AddBox), AddPart)

SceneOf == [lay \in Layouts |-> [dec \in Decorations |-> Scene(lay, dec)]]

Scenarios == {<<SceneOf[lp[1]][dp[1]], SceneOf[lp[2]][dp[2]]>> : lp \in LayoutPairs, dp \in DecPairs}

(***************************************************************************)
(* State.                                                                  *)
(***************************************************************************)
VARIABLES
    fileA, fileB,     \* the two source scenes, as stored
    fileC,            \* the composed scene, as stored
    pc,               \* position in the two scripts' main()
    which,            \* the source being merged or validated: "A" or "B"
    stack,            \* call stack of the recursion
    src, srcTarget,   \* composer: the opened source stage and its edit target
    out, outTarget,   \* composer: out_stage and its edit target
    afterA,           \* composer: out_stage as it was when merge_file(A) returned
    stageA, stageB, stageC,   \* validator: the three opened stages
    errors,           \* validator: the diagnostics
    edit              \* the edit made to the composed file before validation

vars == <<fileA, fileB, fileC, pc, which, stack, src, srcTarget, out, outTarget, afterA,
          stageA, stageB, stageC, errors, edit>>

files == <<fileA, fileB>>
composer == <<src, srcTarget, out, outTarget, afterA>>
validator == <<stageA, stageB, stageC, errors>>

NoPath == <<>>
Frame(fn, X, phase, sets, kids) ==
    [fn |-> fn, path |-> X, phase |-> phase, sets |-> sets, kids |-> kids,
     scope |-> Local, savedOut |-> Local, savedSrc |-> Local, name |-> "", variants |-> {}]

Top == stack[Len(stack)]
Pop == SubSeq(stack, 1, Len(stack) - 1)
SetTop(f) == [stack EXCEPT ![Len(stack)] = f]
NoEdit == [kind |-> "none", path |-> NoPath, name |-> ""]

Init ==
    /\ \E sc \in Scenarios : fileA = sc[1] /\ fileB = sc[2]
    /\ fileC = EmptyLayer
    /\ pc = "compose"
    /\ which = "A"
    /\ stack = <<>>
    /\ src = EmptyLayer /\ srcTarget = Local
    /\ out = EmptyLayer /\ outTarget = Local
    /\ afterA = EmptyLayer
    /\ stageA = EmptyLayer /\ stageB = EmptyLayer /\ stageC = EmptyLayer
    /\ errors = <<>>
    /\ edit = NoEdit

(***************************************************************************)
(* simple_composer.py: main, merge_file, _copy_prim, copy_variant_sets.    *)
(***************************************************************************)
\* main, line 197, and the first statement of merge_file: create the output
\* stage / open the source and list its root prims
merge_file ==
    /\ pc \in {"compose", "mergeB"}
    /\ stack = <<>>
    /\ \E opened \in {IF which = "A" THEN fileA ELSE fileB} :
           /\ src' = opened
           /\ stack' = <<Frame("merge_file", NoPath, "children", <<>>, RootChildren(opened))>>
    /\ srcTarget' = Local
    /\ out' = IF pc = "compose" THEN EmptyLayer ELSE out
    /\ outTarget' = IF pc = "compose" THEN Local ELSE outTarget
    /\ pc' = "merging"
    /\ UNCHANGED <<files, fileC, which, afterA, validator, edit>>

\* a call of _copy_prim from a loop over children (lines 157, 179, 204),
\* up to and including line 172
_copy_prim ==
    /\ pc = "merging"
    /\ stack # <<>>
    /\ Top.phase = "children"
    /\ Top.kids # <<>>
    /\ LET X == Head(Top.kids)
       IN  /\ out' = CopyPrimHead(src, out, outTarget, X)
           /\ stack' = Append(SetTop([Top EXCEPT !.kids = Tail(@)]),
                              Frame("_copy_prim", X, "variants",
                                    SelectFrom(VSetOrder, GetNames(src, X)), <<>>))
    /\ UNCHANGED <<files, fileC, pc, which, src, srcTarget, outTarget, afterA, validator, edit>>

\* copy_variant_sets, one iteration of the loop of line 136 up to the
\* entry of both edit contexts (line 154)
copy_variant_sets ==
    /\ pc = "merging"
    /\ stack # <<>>
    /\ Top.fn = "_copy_prim" /\ Top.phase = "variants"
    /\ Top.sets # <<>>
    /\ \E X \in {Top.path}, vs \in {Head(Top.sets)} :
       \E sel \in {GetVariantSelection(src, X, vs)} :
       \E s1 \in {IF sel # "" THEN SetVariantSelection(src, srcTarget, X, vs, sel) ELSE src},
          d1 \in {MirrorVariantSet(src, out, outTarget, X, vs)} :
       \E st \in {GetVariantEditContext(s1, srcTarget, X, vs)},
          dt \in {GetVariantEditContext(d1, outTarget, X, vs)} :
           /\ src' = s1
           /\ out' = d1
           /\ srcTarget' = st
           /\ outTarget' = dt
           /\ stack' = Append(SetTop([Top EXCEPT !.sets = Tail(@)]),
                              [Frame("with", X, "children", <<>>, GetChildren(s1, X))
                                 EXCEPT !.scope = dt, !.savedOut = outTarget,
                                        !.savedSrc = srcTarget, !.name = vs])
    /\ UNCHANGED <<files, fileC, pc, which, afterA, validator, edit>>

\* a with-block whose exit leaves the destination's edit target where it is
ExitEditContextKeepTarget ==
    /\ pc = "merging"
    /\ stack # <<>>
    /\ Top.fn = "with" /\ Top.kids = <<>>
    /\ outTarget' = outTarget
    /\ srcTarget' = Top.savedSrc
    /\ stack' = Pop
    /\ UNCHANGED <<files, fileC, pc, which, src, out, afterA, validator, edit>>

\* leaving the with-block of line 153: both edit targets are restored
ExitEditContext ==
    /\ pc = "merging"
    /\ stack # <<>>
    /\ Top.fn = "with" /\ Top.kids = <<>>
    /\ outTarget' = Top.savedOut
    /\ srcTarget' = Top.savedSrc
    /\ stack' = Pop
    /\ UNCHANGED <<files, fileC, pc, which, src, out, afterA, validator, edit>>

\* _copy_prim, line 178: the loop over the children after the variant sets
DefaultChildren ==
    /\ pc = "merging"
    /\ stack # <<>>
    /\ Top.fn = "_copy_prim" /\ Top.phase = "variants"
    /\ Top.sets = <<>>
    /\ stack' = SetTop([Top EXCEPT !.phase = "children", !.kids = GetChildren(src, Top.path)])
    /\ UNCHANGED <<files, fileC, pc, which, composer, validator, edit>>

\* _copy_prim returns
ReturnCopyPrim ==
    /\ pc = "merging"
    /\ stack # <<>>
    /\ Top.fn = "_copy_prim" /\ Top.phase = "children"
    /\ Top.kids = <<>>
    /\ stack' = Pop
    /\ UNCHANGED <<files, fileC, pc, which, composer, validator, edit>>

\* merge_file returns: B follows A, the save follows B (lines 207-211)
ReturnMergeFile ==
    /\ pc = "merging"
    /\ stack # <<>>
    /\ Top.fn = "merge_file" /\ Top.kids = <<>>
    /\ stack' = <<>>
    /\ IF which = "A"
       THEN /\ which' = "B" /\ pc' = "mergeB" /\ fileC' = fileC /\ afterA' = out
       ELSE /\ which' = "A" /\ pc' = "merged" /\ fileC' = out /\ afterA' = afterA
    /\ UNCHANGED <<files, src, srcTarget, out, outTarget, validator, edit>>

Compose == merge_file \/ _copy_prim \/ copy_variant_sets \/ ExitEditContext
              \/ DefaultChildren \/ ReturnCopyPrim \/ ReturnMergeFile

(***************************************************************************)
(* An edit of the composed file between the two scripts: one relationship  *)
(* deleted from a prim, or one relationship added that no source has.      *)
(***************************************************************************)
RemoveRelationship(layer, X, r) ==
    [s \in Sites |-> IF s[1] = X THEN [layer[s] EXCEPT !.rels[r] = NoRel] ELSE layer[s]]

EditComposed ==
    /\ pc = "merged"
    /\ edit = NoEdit
    /\ \E X \in Paths :
         /\ IsDefined(fileC, X)
         /\ \/ \E r \in RelNames :
                 /\ GetTargets(fileC, X, r) # NoRel
                 /\ fileC' = RemoveRelationship(fileC, X, r)
                 /\ edit' = [kind |-> "removed", path |-> X, name |-> r]
            \/ /\ GetTargets(fileC, X, "debugLink") = NoRel
               /\ fileC' = SetTargets(fileC, Local, X, "debugLink", {Mat1})
               /\ edit' = [kind |-> "added", path |-> X, name |-> "debugLink"]
    /\ UNCHANGED <<files, pc, which, stack, composer, validator>>

(***************************************************************************)
(* validate_composed.py.                                                   *)
(***************************************************************************)
Diag(kind, X, name) == [kind |-> kind, path |-> X, name |-> name]

\* src_val != dst_val for one key of the source's GetAllMetadata()
MetadataDiffers(source, dest, X, key) ==
    CASE key = "specifier"     -> GetSpecifier(source, X) # GetSpecifier(dest, X)
      [] key = "typeName"      -> GetTypeName(source, X) # GetTypeName(dest, X)
      \* the fallback documentation is the one of the prim's type
      [] key = "documentation" -> GetTypeName(source, X) # GetTypeName(dest, X)
      [] key = "customData"    -> GetCustomData(source, X) # GetCustomData(dest, X)
      [] OTHER                 -> GetMetadata(source, X, key) # GetMetadata(dest, X, key)

validate_metadata(source, dest, X) ==
    LET keys == SelectFrom(KeyOrder, {k \in GetAllMetadataKeys(source, X) :
                                          MetadataDiffers(source, dest, X, k)})
    IN  [i \in 1..Len(keys) |-> Diag("Metadata mismatch", X, keys[i])]

\* the diagnostic of the loop of line 51 for one source relationship
RelationshipError(source, dest, X, r) ==
    IF GetTargets(dest, X, r) = NoRel THEN <<Diag("Missing relationship", X, r)>>
    ELSE IF GetTargets(dest, X, r) # GetTargets(source, X, r)
         THEN <<Diag("Relationship targets differ", X, r)>>
    ELSE <<>>

RECURSIVE RelationshipErrors(_, _, _, _)
RelationshipErrors(source, dest, X, rs) ==
    IF rs = <<>> THEN <<>>
    ELSE RelationshipError(source, dest, X, Head(rs))
         \o RelationshipErrors(source, dest, X, Tail(rs))

\* a validate_relationships without the loop of line 58
validate_relationshipsNoExtra(source, dest, X) ==
    RelationshipErrors(source, dest, X, GetRelationships(source, X))

validate_relationships(source, dest, X) ==
    LET extra == SelectFrom(RelOrder, {r \in RelNames : /\ GetTargets(dest, X, r) # NoRel
                                                       /\ GetTargets(source, X, r) = NoRel})
    IN  RelationshipErrors(source, dest, X, GetRelationships(source, X))
        \o [i \in 1..Len(extra) |-> Diag("Extra relationship", X, extra[i])]

\* validate_variant_sets, lines 68-77: variant sets missing or extra by name
VariantSetNameErrors(source, dest, X) ==
    LET missing == SelectFrom(VSetOrder, GetNames(source, X) \ GetNames(dest, X))
        extra   == SelectFrom(VSetOrder, GetNames(dest, X) \ GetNames(source, X))
    IN  [i \in 1..Len(missing) |-> Diag("Missing variant set", X, missing[i])]
        \o [i \in 1..Len(extra) |-> Diag("Extra variant set", X, extra[i])]

\* validate_variant_sets, lines 84-96, for one common variant set
VariantErrors(source, dest, X, vs) ==
    LET missing == SelectFrom(VariantOrder, GetVariantNames(source, X, vs) \ GetVariantNames(dest, X, vs))
        extra   == SelectFrom(VariantOrder, GetVariantNames(dest, X, vs) \ GetVariantNames(source, X, vs))
    IN  [i \in 1..Len(missing) |-> Diag("Missing variant", X, missing[i])]
        \o [i \in 1..Len(extra) |-> Diag("Extra variant", X, extra[i])]
        \o (IF GetVariantSelection(source, X, vs) # GetVariantSelection(dest, X, vs)
            THEN <<Diag("Variant selection mismatch", X, vs)>> ELSE <<>>)

\* validate_prim, lines 121-127, and the head of validate_variant_sets
ValidatePrimHead(source, dest, X) ==
    (IF GetTypeName(source, X) # GetTypeName(dest, X)
     THEN <<Diag("Type mismatch", X, "")>> ELSE <<>>)
    \o validate_metadata(source, dest, X)
    \o validate_relationships(source, dest, X)
    \o VariantSetNameErrors(source, dest, X)

Source == IF which = "A" THEN stageA ELSE stageB

\* main, lines 146-157: open the three stages
OpenStages ==
    /\ pc = "merged"
    /\ stageA' = fileA /\ stageB' = fileB /\ stageC' = fileC
    /\ errors' = <<>>
    /\ which' = "A"
    /\ stack' = <<Frame("main", NoPath, "children", {}, RootChildren(fileA))>>
    /\ pc' = "validating"
    /\ UNCHANGED <<files, fileC, composer, edit>>

\* main, line 156: the loop moves on to stage B, then to the report
NextStage ==
    /\ pc = "validating"
    /\ Top.fn = "main" /\ Top.kids = <<>>
    /\ IF which = "A"
       THEN /\ which' = "B"
            /\ stack' = <<Frame("main", NoPath, "children", {}, RootChildren(stageB))>>
            /\ pc' = pc
       ELSE /\ which' = "A" /\ stack' = <<>> /\ pc' = "validated"
    /\ UNCHANGED <<files, fileC, composer, validator, edit>>

\* a source child whose destination prim is invalid: validate_prim reports
\* "Missing prim" and returns (line 116); under a variant the caller itself
\* reports "Missing child" (line 104)
MissingPrim ==
    /\ pc = "validating"
    /\ Top.phase = "children" /\ Top.kids # <<>>
    /\ LET X == Head(Top.kids)
       IN  /\ ~IsValid(stageC, X)
           /\ errors' = Append(errors, IF Top.fn = "variant"
                                       THEN Diag("Missing child", Top.path, X[Len(X)])
                                       ELSE Diag("Missing prim", X, ""))
    /\ stack' = SetTop([Top EXCEPT !.kids = Tail(@)])
    /\ UNCHANGED <<files, fileC, pc, which, composer, stageA, stageB, stageC, edit>>

\* a call of validate_prim on a valid destination prim (lines 108, 132,
\* 160), up to line 77 of validate_variant_sets
validate_prim ==
    /\ pc = "validating"
    /\ Top.phase = "children" /\ Top.kids # <<>>
    /\ LET X == Head(Top.kids)
       IN  /\ IsValid(stageC, X)
           /\ errors' = errors \o ValidatePrimHead(Source, stageC, X)
           /\ stack' = Append(SetTop([Top EXCEPT !.kids = Tail(@)]),
                              Frame("validate_prim", X, "variants",
                                    GetNames(Source, X) \cap GetNames(stageC, X), <<>>))
    /\ UNCHANGED <<files, fileC, pc, which, composer, stageA, stageB, stageC, edit>>

\* validate_variant_sets, lines 79-96: the next common variant set, in the
\* iteration order of a Python set
validate_variant_sets ==
    /\ pc = "validating"
    /\ Top.fn = "validate_prim" /\ Top.phase = "variants"
    /\ \E vs \in Top.sets :
         /\ errors' = errors \o VariantErrors(Source, stageC, Top.path, vs)
         /\ stack' = Append(SetTop([Top EXCEPT !.sets = @ \ {vs}]),
                            [Frame("variant", Top.path, "children", {}, <<>>)
                               EXCEPT !.name = vs,
                                      !.variants = GetVariantNames(Source, Top.path, vs)
                                                   \cap GetVariantNames(stageC, Top.path, vs)])
    /\ UNCHANGED <<files, fileC, pc, which, composer, stageA, stageB, stageC, edit>>

\* lines 99-102: select the next common variant on both stages and list the
\* source prim's children under it
SelectVariant ==
    /\ pc = "validating"
    /\ Top.fn = "variant" /\ Top.kids = <<>>
    /\ \E v \in Top.variants :
         \E s1 \in {SetVariantSelection(Source, Local, Top.path, Top.name, v)} :
             /\ IF which = "A" THEN stageA' = s1 /\ stageB' = stageB
                               ELSE stageB' = s1 /\ stageA' = stageA
             /\ stageC' = SetVariantSelection(stageC, Local, Top.path, Top.name, v)
             /\ stack' = SetTop([Top EXCEPT !.variants = @ \ {v},
                                            !.kids = GetChildren(s1, Top.path)])
    /\ UNCHANGED <<files, fileC, pc, which, composer, errors, edit>>

\* the loop of line 99 is exhausted
ReturnVariant ==
    /\ pc = "validating"
    /\ Top.fn = "variant" /\ Top.kids = <<>> /\ Top.variants = {}
    /\ stack' = Pop
    /\ UNCHANGED <<files, fileC, pc, which, composer, validator, edit>>

\* validate_prim, line 131: the default children
ValidateChildren ==
    /\ pc = "validating"
    /\ Top.fn = "validate_prim" /\ Top.phase = "variants" /\ Top.sets = {}
    /\ stack' = SetTop([Top EXCEPT !.phase = "children",
                                   !.kids = GetChildren(Source, Top.path)])
    /\ UNCHANGED <<files, fileC, pc, which, composer, validator, edit>>

ReturnValidatePrim ==
    /\ pc = "validating"
    /\ Top.fn = "validate_prim" /\ Top.phase = "children" /\ Top.kids = <<>>
    /\ stack' = Pop
    /\ UNCHANGED <<files, fileC, pc, which, composer, validator, edit>>

Validate == OpenStages \/ NextStage \/ MissingPrim \/ validate_prim
               \/ validate_variant_sets \/ SelectVariant \/ ReturnVariant
               \/ ValidateChildren \/ ReturnValidatePrim

Next == Compose \/ EditComposed \/ Validate
Spec == Init /\ [][Next]_vars


(***************************************************************************)
(* Properties.                                                             *)
(***************************************************************************)
\* the composer has saved the composed file and nothing has touched it since
MergeDone == pc = "merged" /\ edit = NoEdit

\* the prims a traversal of the document meets, under its stored selections
Nodes(layer) == {X \in Paths : IsDefined(layer, X)}

TypeOrXform(layer, X) == IF GetTypeName(layer, X) = "" THEN "Xform" ELSE GetTypeName(layer, X)

\* C1, as stated: after the merge of A then B into an empty destination,
\* every node of A and every node of B has a destination node at its path
\* whose type name equals that source node's type name, also when the two
\* sources type the path differently and when a source type is unset.
C1_TypeOfEverySource ==
    MergeDone =>
        \A X \in Paths :
            /\ X \in Nodes(fileA) =>
                   IsDefined(fileC, X) /\ GetTypeName(fileC, X) = GetTypeName(fileA, X)
            /\ X \in Nodes(fileB) =>
                   IsDefined(fileC, X) /\ GetTypeName(fileC, X) = GetTypeName(fileB, X)

\* C1, amended: every node of A and of B has a destination node at its path.
\* Its type name is that of B's node, read as Xform when unset, at every
\* path B has a node at; at a path only A has a node at it is A's type name
\* when A's node has one.
C1_TypeOfLastSource ==
    MergeDone =>
        \A X \in Paths :
            /\ X \in Nodes(fileA) \cup Nodes(fileB) => IsDefined(fileC, X)
            /\ X \in Nodes(fileB) => GetTypeName(fileC, X) = TypeOrXform(fileB, X)
            /\ X \in Nodes(fileA) \ Nodes(fileB) /\ GetTypeName(fileA, X) # "" =>
                   GetTypeName(fileC, X) = GetTypeName(fileA, X)

\* a merge in which A types Box and B leaves its type unset
C1_Witness ==
    /\ MergeDone
    /\ Box \in Nodes(fileA) \cap Nodes(fileB)
    /\ GetTypeName(fileA, Box) = "Cube"
    /\ GetTypeName(fileB, Box) = ""
    /\ GetTypeName(fileC, Box) = "Xform"

\* the document with variant v of set vs selected on prim P
Select(layer, P, vs, v) == SetVariantSelection(layer, Local, P, vs, v)

\* prim X has specs in the document, all of them inside variant v of set vs of P
OnlyInside(layer, P, vs, v, X) ==
    /\ layer[<<X, VarScope(P, vs, v)>>].specifier = "def"
    /\ \A s \in Sites : s[1] = X /\ s[2] # VarScope(P, vs, v) => layer[s].specifier = "none"

NoSpec(layer, X) == \A s \in Sites : s[1] = X => layer[s].specifier = "none"

\* C2, as stated: when World of A has the variant set with variants Metal and
\* Plastic, Metal selected, and a child authored only inside Metal (and B
\* authors that child nowhere else), then after the merge the destination
\* with Plastic selected has no child at that path and with Metal selected
\* has it.
C2_VariantOnlyChild ==
    MergeDone =>
        \A X \in {Box} :
            (/\ GetVariantNames(fileA, World, MV) = {"Metal", "Plastic"}
             /\ GetVariantSelection(fileA, World, MV) = "Metal"
             /\ OnlyInside(fileA, World, MV, "Metal", X)
             /\ OnlyInside(fileB, World, MV, "Metal", X) \/ NoSpec(fileB, X))
            => /\ ~IsDefined(Select(fileC, World, MV, "Plastic"), X)
               /\ IsDefined(Select(fileC, World, MV, "Metal"), X)

\* C3, as stated: after the merge, for every variant set of every source node
\* and every variant declared in it, with that variant selected on the source
\* and on the destination every child the source node has is a child of the
\* destination node.
C3_EveryVariantsChildren ==
    MergeDone =>
        \A S \in {fileA, fileB} : \A P \in Nodes(S) :
        \A vs \in GetNames(S, P) : \A v \in GetVariantNames(S, P, vs) :
        \A i \in DOMAIN GetChildren(Select(S, P, vs, v), P) :
            IsDefined(Select(fileC, P, vs, v), GetChildren(Select(S, P, vs, v), P)[i])

\* the value of a metadata key of a prim
MetadataValue(layer, X, k) ==
    CASE k = "specifier" -> GetSpecifier(layer, X)
      [] k = "typeName"  -> GetTypeName(layer, X)
      [] OTHER           -> GetMetadata(layer, X, k)

\* the metadata keys copy_metadata does not reserve, customData apart
SharedKeys(X) ==
    (GetAllMetadataKeys(fileA, X) \cap GetAllMetadataKeys(fileB, X))
        \ (custom_data_keys \cup {"customData"})

\* C4, as stated: for a non-reserved metadata key that A and B both define
\* at a path, the destination holds B's value when the key was among the
\* destination node's keys after A's pass, and holds A's value, in its custom
\* data, when it was not (a novel key).
C4_MetadataPrecedence ==
    MergeDone =>
        \A X \in Nodes(fileA) \cap Nodes(fileB) : \A k \in SharedKeys(X) :
            IF k \in GetAllMetadataKeys(afterA, X)
            THEN MetadataValue(fileC, X, k) = MetadataValue(fileB, X, k)
            ELSE GetCustomData(fileC, X)[k] = MetadataValue(fileA, X, k)

\* C5, as stated: a comment on a node of A is skipped by the metadata copy
\* but still reaches the destination node, as metadata or in its custom
\* data; with A giving Box a comment and the relationship boundMaterial and
\* B giving it the attribute size, the destination Box carries all three.
C5_CommentCarried ==
    MergeDone =>
        /\ \A X \in Nodes(fileA) :
               GetMetadata(fileA, X, "comment") # None =>
                   \/ GetMetadata(fileC, X, "comment") = GetMetadata(fileA, X, "comment")
                   \/ GetCustomData(fileC, X)["comment"] = GetMetadata(fileA, X, "comment")
        /\ \A X \in Nodes(fileA) \cap Nodes(fileB) :
               /\ GetTargets(fileA, X, "boundMaterial") # NoRel =>
                      GetTargets(fileC, X, "boundMaterial") = GetTargets(fileA, X, "boundMaterial")
               /\ GetAttr(fileB, X, "size") = NumValues => GetAttr(fileC, X, "size") = NumValues

\* the validator has returned, on the composed file as the composer saved it
ValidationDone == pc = "validated" /\ edit = NoEdit

\* A gives the node a comment and a relationship and no attribute, B gives it
\* an attribute and neither comment nor relationship
DisjointContent(X) ==
    /\ X \in Nodes(fileA) \cap Nodes(fileB)
    /\ GetMetadata(fileA, X, "comment") # None /\ GetRelationships(fileA, X) # <<>>
    /\ GetAttributes(fileA, X) = {}
    /\ GetMetadata(fileB, X, "comment") = None /\ GetRelationships(fileB, X) = <<>>
    /\ GetAttributes(fileB, X) # {}

\* C6, as stated: when A and B define a node with disjoint content, the
\* validation of the merged file against A and B reports for that node no
\* metadata mismatch, no missing relationship and no extra relationship.
C6_DisjointContentValidates ==
    ValidationDone =>
        \A X \in Paths :
            DisjointContent(X) =>
                \A i \in DOMAIN errors :
                    ~(/\ errors[i].path = X
                      /\ errors[i].kind \in {"Metadata mismatch", "Missing relationship",
                                             "Extra relationship"})

\* C7, as stated: a document merged as both A and B validates with no
\* diagnostic.
C7_SelfMergeValidates ==
    ValidationDone /\ fileA = fileB => errors = <<>>

\* the validator has returned, on a composed file edited after the merge
EditedAndValidated == pc = "validated" /\ edit # NoEdit

\* the diagnostic the edit calls for
EditDiag ==
    Diag(IF edit.kind = "removed" THEN "Missing relationship" ELSE "Extra relationship",
         edit.path, edit.name)

Count(d) == Cardinality({i \in DOMAIN errors : errors[i] = d})

\* some ancestor of X declares a variant set in the document
HasVariantAncestor(layer, X) ==
    \E s \in Sites : IsPrefix(s[1], X) /\ \E vs \in VSetNames : layer[s].vsets[vs] # NoSet

\* the source document calls for the diagnostic at the edited prim: it has
\* the removed relationship there / it has the prim the relationship was
\* added to
Concerned(layer) ==
    IF edit.kind = "removed"
    THEN IsDefined(layer, edit.path) /\ GetTargets(layer, edit.path, edit.name) # NoRel
    ELSE IsDefined(layer, edit.path)

\* C8, as stated: on a destination lacking one relationship of a source node
\* the validator produces exactly one diagnostic naming that relationship
\* and path, and on a destination with one relationship neither source has
\* exactly one "extra relationship" diagnostic, wherever the node sits.
C8_ExactlyOneDiagnostic ==
    EditedAndValidated => Count(EditDiag) = 1

\* C8, amended: the diagnostic is produced at least once; when no ancestor
\* of the node declares a variant set in either source it is produced once
\* for each source document that has the relationship (for an extra
\* relationship: that has the node), so twice at a path both sources define.
C8_OneDiagnosticPerPass ==
    EditedAndValidated =>
        /\ Count(EditDiag) >= 1
        /\ ~HasVariantAncestor(fileA, edit.path) /\ ~HasVariantAncestor(fileB, edit.path) =>
               Count(EditDiag) = (IF Concerned(fileA) THEN 1 ELSE 0)
                                 + (IF Concerned(fileB) THEN 1 ELSE 0)

\* a relationship both sources give Box was removed and is reported twice
C8_Witness ==
    /\ EditedAndValidated
    /\ edit.kind = "removed" /\ edit.path = Box
    /\ Concerned(fileA) /\ Concerned(fileB)
    /\ Count(EditDiag) = 2

\* the prim spec as the validator may leave it: the same but for the variant
\* selections, in a spec that was created to hold one if there was none
SameButSelections(now, before) ==
    /\ [now EXCEPT !.vsel = before.vsel, !.specifier = before.specifier] = before
    /\ now.specifier = before.specifier
       \/ (before.specifier = "none" /\ now.specifier = "over")

OnlySelectionsChanged(stage, file) ==
    \A s \in Sites :
        /\ SameButSelections(stage[s], file[s])
        /\ stage[s] # file[s] => s[2] = Local

\* C9, as stated: when the validator returns, the three documents it opened
\* are as they were opened, variant selections included.
C9_DocumentsUntouched ==
    pc = "validated" => stageA = fileA /\ stageB = fileB /\ stageC = fileC

\* C9, amended: the validator changes nothing of the three documents but
\* the current selections of variant sets, written in the default scope of
\* the opened documents, and it never writes the documents back.
C9_OnlySelectionsChange ==
    pc \in {"validating", "validated"} =>
        /\ OnlySelectionsChanged(stageA, fileA)
        /\ OnlySelectionsChanged(stageB, fileB)
        /\ OnlySelectionsChanged(stageC, fileC)

\* the validator has returned and left a selection changed in a source and
\* in the composed document
C9_Witness ==
    /\ pc = "validated"
    /\ \E vs \in VSetNames :
           /\ GetVariantSelection(stageA, World, vs) # GetVariantSelection(fileA, World, vs)
           /\ GetVariantSelection(stageC, World, vs) # GetVariantSelection(fileC, World, vs)

\* the composer is in the loop of line 178 of some prim
InStep6 ==
    pc = "merging" /\ stack # <<>> /\ Top.fn = "_copy_prim" /\ Top.phase = "children"

\* the scope of the innermost with-block still open, the default scope if none
RECURSIVE InnermostScope(_)
InnermostScope(st) ==
    IF st = <<>> THEN Local
    ELSE IF st[Len(st)].fn = "with" THEN st[Len(st)].scope
    ELSE InnermostScope(SubSeq(st, 1, Len(st) - 1))

\* C10, as stated: for every visited node, at any depth, the recursion into
\* its children after the variant sets runs with no variant scope active on
\* the destination.
C10_NoScopeActive ==
    InStep6 => outTarget = Local

\* C10, amended: that recursion runs with the destination's edit target as
\* it was when the node was entered, the scopes of the node's own variant
\* sets released: the scope of the with-block of the nearest ancestor that is
\* still open, the default scope when there is none.
C10_PriorContextRestored ==
    InStep6 => outTarget = InnermostScope(stack)

\* a node reached inside an ancestor's variant is about to copy its children
C10_Witness ==
    /\ InStep6
    /\ Top.kids # <<>>
    /\ outTarget # Local
    /\ Top.path = Box

\* C11, as stated: an inner customData key the destination node already
\* holds in its custom data keeps its value when a source's customData is
\* merged, so for an inner key that A and B both define at a path the
\* destination holds A's value after the merge of A then B.
C11_CustomDataKeepsFirst ==
    MergeDone =>
        \A X \in Nodes(fileA) \cap Nodes(fileB) : \A k \in CDKeys :
            /\ GetCustomData(fileB, X)[k] # None /\ GetCustomData(afterA, X)[k] # None =>
                   GetCustomData(fileC, X)[k] = GetCustomData(afterA, X)[k]
            /\ GetCustomData(fileB, X)[k] # None /\ GetCustomData(fileA, X)[k] # None =>
                   GetCustomData(fileC, X)[k] = GetCustomData(fileA, X)[k]

====
